---- MODULE Spec2Model ----
(***************************************************************************)
(* A model of yolo_inference_server.py: the /detect request handler, the   *)
(* post-processing pipeline behind it (extract_detections,                 *)
(* convert_coordinates, apply_nms) and calculate_iou.                      *)
(*                                                                         *)
(* Numbers.  The program computes on floats; the model computes on exact   *)
(* rationals <<n, d>> with d > 0, kept in lowest terms.  Rounding,         *)
(* overflow, NaN and the infinities of float arithmetic are outside the    *)
(* model.                                                                  *)
(***************************************************************************)
EXTENDS Integers, Sequences, FiniteSets, TLC

VARIABLES
  session,               \* the global session: "None" or "loaded"
  pc,                    \* the position of the running code
  request,               \* the pending request: body and query arguments
  confidence_threshold,  \* detect(): local
  iou_threshold,         \* detect() / apply_nms(): the iou threshold
  original_size,         \* detect(): local, <<width, height>>
  outputs,               \* detect(): outputs[0], the engine's output tensor
  raw_detections,        \* postprocess_output(): local
  detections,            \* postprocess_output(): local
  boxes,                 \* apply_nms(): local, the working list
  result,                \* apply_nms(): local
  current,               \* apply_nms(): local, the box popped last
  removed,               \* the boxes the last filter of apply_nms dropped
  caller,                \* who called apply_nms
  response,              \* the response of detect(): status and payload
  called,                \* the stages that ran for the pending request
  nms_in,                \* the list given to the first apply_nms call
  nms_out1,              \* what the first apply_nms call returned
  nms_out2,              \* what apply_nms returned on its own output
  box1, box2,            \* the arguments of a calculate_iou call
  iou                    \* what that call returned

vars == <<session, pc, request, confidence_threshold, iou_threshold,
          original_size, outputs, raw_detections, detections, boxes, result,
          current, removed, caller, response, called, nms_in, nms_out1,
          nms_out2, box1, box2, iou>>

handlerVars == <<session, request, confidence_threshold, original_size,
                 outputs, raw_detections, detections, response, called>>
nmsVars == <<boxes, result, current, removed>>
nmsCallVars == <<nms_in, nms_out1, nms_out2>>
iouVars == <<box1, box2, iou>>

None == "None"

\* ------------------------------------------------------------------ bounds
MaxBoxes == 3   \* the longest list given to apply_nms
MaxCoord == 2   \* the largest coordinate and extent of a calculate_iou argument
NumCols == 2    \* the candidate columns of the output tensor

\* ------------------------------------------------------- exact arithmetic
Abs(n) == IF n < 0 THEN -n ELSE n

RECURSIVE GCD(_, _)
GCD(a, b) == IF b = 0 THEN a ELSE GCD(b, a % b)

\* n/d in lowest terms with a positive denominator (d # 0)
Norm(n, d) ==
  LET g == GCD(Abs(n), Abs(d))
      s == IF d < 0 THEN -1 ELSE 1
  IN <<(s * n) \div g, (s * d) \div g>>

R(n) == <<n, 1>>
Zero == R(0)
One == R(1)
RAdd(a, b) == Norm(a[1] * b[2] + b[1] * a[2], a[2] * b[2])
RSub(a, b) == Norm(a[1] * b[2] - b[1] * a[2], a[2] * b[2])
RMul(a, b) == Norm(a[1] * b[1], a[2] * b[2])
RDiv(a, b) == Norm(a[1] * b[2], a[2] * b[1])
RLt(a, b) == a[1] * b[2] < b[1] * a[2]
RLe(a, b) == a[1] * b[2] <= b[1] * a[2]
\* Python's max(a, b) and min(a, b): the first argument unless the second
\* is strictly larger (smaller)
PyMax(a, b) == IF RLt(a, b) THEN b ELSE a
PyMin(a, b) == IF RLt(b, a) THEN b ELSE a

Range(s) == {s[i] : i \in 1..Len(s)}

\* ----------------------------------------------------------- calculate_iou
IouUnclamped(b1, b2) ==
  LET x1 == PyMax(b1.x, b2.x)
      y1 == PyMax(b1.y, b2.y)
      x2 == PyMin(RAdd(b1.x, b1.width), RAdd(b2.x, b2.width))
      y2 == PyMin(RAdd(b1.y, b1.height), RAdd(b2.y, b2.height))
      intersection_area == RMul(RSub(x2, x1), RSub(y2, y1))
      box1_area == RMul(b1.width, b1.height)
      box2_area == RMul(b2.width, b2.height)
      union_area == RSub(RAdd(box1_area, box2_area), intersection_area)
  IN IF RLe(box1_area, Zero) \/ RLe(box2_area, Zero) THEN Zero
     ELSE IF RLt(Zero, union_area) THEN RDiv(intersection_area, union_area)
     ELSE Zero

IouOverSum(b1, b2) ==
  LET x1 == PyMax(b1.x, b2.x)
      y1 == PyMax(b1.y, b2.y)
      x2 == PyMin(RAdd(b1.x, b1.width), RAdd(b2.x, b2.width))
      y2 == PyMin(RAdd(b1.y, b1.height), RAdd(b2.y, b2.height))
      intersection_area ==
        RMul(PyMax(Zero, RSub(x2, x1)), PyMax(Zero, RSub(y2, y1)))
      box1_area == RMul(b1.width, b1.height)
      box2_area == RMul(b2.width, b2.height)
      union_area == RAdd(box1_area, box2_area)
  IN IF RLe(box1_area, Zero) \/ RLe(box2_area, Zero) THEN Zero
     ELSE IF RLt(Zero, union_area) THEN RDiv(intersection_area, union_area)
     ELSE Zero

calculate_iou(b1, b2) ==
  LET x1 == PyMax(b1.x, b2.x)
      y1 == PyMax(b1.y, b2.y)
      x2 == PyMin(RAdd(b1.x, b1.width), RAdd(b2.x, b2.width))
      y2 == PyMin(RAdd(b1.y, b1.height), RAdd(b2.y, b2.height))
      intersection_area ==
        RMul(PyMax(Zero, RSub(x2, x1)), PyMax(Zero, RSub(y2, y1)))
      box1_area == RMul(b1.width, b1.height)
      box2_area == RMul(b2.width, b2.height)
      union_area == RSub(RAdd(box1_area, box2_area), intersection_area)
  IN IF RLe(box1_area, Zero) \/ RLe(box2_area, Zero) THEN Zero
     ELSE IF RLt(Zero, union_area) THEN RDiv(intersection_area, union_area)
     ELSE Zero

\* --------------------------------------------------------------- apply_nms
\* sorted(boxes, key=confidence, reverse=True): a stable sort, so boxes of
\* equal confidence keep their order.  Insert puts b behind every box whose
\* confidence is at least b's.
RECURSIVE Insert(_, _)
Insert(s, b) ==
  IF s = <<>> THEN <<b>>
  ELSE IF RLt(Head(s).confidence, b.confidence) THEN <<b>> \o s
  ELSE <<Head(s)>> \o Insert(Tail(s), b)

RECURSIVE InsertBeforeEqual(_, _)
InsertBeforeEqual(s, b) ==
  IF s = <<>> THEN <<b>>
  ELSE IF RLe(Head(s).confidence, b.confidence) THEN <<b>> \o s
  ELSE <<Head(s)>> \o InsertBeforeEqual(Tail(s), b)

RECURSIVE SortedUnstable(_)
SortedUnstable(s) ==
  IF s = <<>> THEN <<>>
  ELSE InsertBeforeEqual(SortedUnstable(SubSeq(s, 1, Len(s) - 1)), s[Len(s)])

\* sorted(boxes, key=confidence) without reverse=True
RECURSIVE InsertAscending(_, _)
InsertAscending(s, b) ==
  IF s = <<>> THEN <<b>>
  ELSE IF RLt(b.confidence, Head(s).confidence) THEN <<b>> \o s
  ELSE <<Head(s)>> \o InsertAscending(Tail(s), b)

RECURSIVE SortedAscending(_)
SortedAscending(s) ==
  IF s = <<>> THEN <<>>
  ELSE InsertAscending(SortedAscending(SubSeq(s, 1, Len(s) - 1)), s[Len(s)])

RECURSIVE SortedByConfidence(_)
SortedByConfidence(s) ==
  IF s = <<>> THEN <<>>
  ELSE Insert(SortedByConfidence(SubSeq(s, 1, Len(s) - 1)), s[Len(s)])

\* [box for box in boxes if calculate_iou(current, box) < iou_threshold]
RECURSIVE KeepSkipping(_, _, _)
KeepSkipping(cur, rest, thr) ==
  IF rest = <<>> THEN <<>>
  ELSE IF RLt(calculate_iou(cur, Head(rest)), thr)
       THEN <<Head(rest)>> \o KeepSkipping(cur, Tail(rest), thr)
  ELSE IF Len(rest) = 1 THEN <<>>
  ELSE <<rest[2]>> \o KeepSkipping(cur, Tail(Tail(rest)), thr)

KeepSameClassOnly(cur, rest, thr) ==
  LET Stays(box) == \/ box.class_id # cur.class_id
                   \/ RLt(calculate_iou(cur, box), thr)
  IN SelectSeq(rest, Stays)

Keep(cur, rest, thr) ==
  LET Far(box) == RLt(calculate_iou(cur, box), thr)
  IN SelectSeq(rest, Far)

Dropped(cur, rest, thr) ==
  LET Near(box) == ~RLt(calculate_iou(cur, box), thr)
  IN SelectSeq(rest, Near)

\* apply_nms, lines 122-128: the early return of an empty list, else the sort
NmsEnter ==
  /\ pc = "nms_enter"
  /\ IF boxes = <<>>
       THEN /\ result' = <<>>
            /\ pc' = "nms_done"
            /\ UNCHANGED boxes
       ELSE /\ boxes' = SortedByConfidence(boxes)
            /\ result' = <<>>
            /\ pc' = "nms_loop"
  /\ UNCHANGED <<current, removed, caller, iou_threshold>>
  /\ UNCHANGED <<handlerVars, nmsCallVars, iouVars>>

\* one turn of the while loop, lines 129-134
NmsIter ==
  /\ pc = "nms_loop"
  /\ boxes # <<>>
  /\ current' = Head(boxes)
  /\ result' = Append(result, Head(boxes))
  /\ boxes' = Keep(Head(boxes), Tail(boxes), iou_threshold)
  /\ removed' = Dropped(Head(boxes), Tail(boxes), iou_threshold)
  /\ UNCHANGED <<pc, caller, iou_threshold>>
  /\ UNCHANGED <<handlerVars, nmsCallVars, iouVars>>

\* the loop ends, line 136
NmsExit ==
  /\ pc = "nms_loop"
  /\ boxes = <<>>
  /\ pc' = "nms_done"
  /\ UNCHANGED <<boxes, result, current, removed, caller, iou_threshold>>
  /\ UNCHANGED <<handlerVars, nmsCallVars, iouVars>>

\* ------------------------------------------------- calls of the functions
\* The values a box of a direct call is drawn from.
Geometries ==
  { [x |-> R(0), y |-> R(0), width |-> R(2), height |-> R(2)],
    [x |-> R(1), y |-> R(0), width |-> R(2), height |-> R(2)],
    [x |-> R(2), y |-> R(0), width |-> R(2), height |-> R(2)],
    [x |-> R(2), y |-> R(2), width |-> R(-2), height |-> R(-2)] }
\* confidence and class_id of such a box: two classes, and a tie in confidence
Scored ==
  { [confidence |-> <<9, 10>>, class_id |-> 0],
    [confidence |-> <<1, 2>>, class_id |-> 0],
    [confidence |-> <<1, 2>>, class_id |-> 1] }
\* iou_threshold: no validation limits it to [0, 1]
Thresholds == { Zero, <<1, 3>>, <<3, 2>> }

\* a detection dict; id stands for the identity of the dict object, the
\* position at which it was created
MkBox(g, c, i) ==
  [x |-> g.x, y |-> g.y, width |-> g.width, height |-> g.height,
   confidence |-> c.confidence, label |-> "person", class_id |-> c.class_id,
   id |-> i]

\* the list of n boxes of geometries g and scores c
BoxList(n, g, c) == [i \in 1..n |-> MkBox(g[i], c[i], i)]

NoBox == [id |-> 0]
\* no response yet
NoResponse == [status |-> 0]

IdleHandler ==
  /\ session = None
  /\ request = None
  /\ confidence_threshold = None
  /\ original_size = None
  /\ outputs = <<>>
  /\ raw_detections = <<>>
  /\ detections = <<>>
  /\ response = NoResponse
  /\ called = <<>>

IdleIou == box1 = NoBox /\ box2 = NoBox /\ iou = None
IdleNmsCall == nms_in = <<>> /\ nms_out1 = None /\ nms_out2 = None

\* apply_nms(L, t), then apply_nms on what it returned
InitNms ==
  /\ \E n \in 0..MaxBoxes :
       \E g \in [1..n -> Geometries], c \in [1..n -> Scored] :
         nms_in = BoxList(n, g, c)
  /\ iou_threshold \in Thresholds
  /\ boxes = nms_in
  /\ result = <<>>
  /\ current = NoBox
  /\ removed = <<>>
  /\ caller = "first"
  /\ pc = "nms_enter"
  /\ nms_out1 = None
  /\ nms_out2 = None
  /\ IdleHandler
  /\ IdleIou

FirstReturn ==
  /\ pc = "nms_done"
  /\ caller = "first"
  /\ nms_out1' = result
  /\ boxes' = result
  /\ caller' = "second"
  /\ pc' = "nms_enter"
  /\ UNCHANGED <<result, current, removed, iou_threshold, nms_in, nms_out2>>
  /\ UNCHANGED <<handlerVars, iouVars>>

SecondReturn ==
  /\ pc = "nms_done"
  /\ caller = "second"
  /\ nms_out2' = result
  /\ pc' = "returned"
  /\ UNCHANGED <<boxes, result, current, removed, caller, iou_threshold,
                 nms_in, nms_out1>>
  /\ UNCHANGED <<handlerVars, iouVars>>

NextNms == NmsEnter \/ NmsIter \/ NmsExit \/ FirstReturn \/ SecondReturn

SpecNms == InitNms /\ [][NextNms]_vars

\* calculate_iou(box1, box2) on boxes of integer corners and extents
Extents == (0 - MaxCoord)..MaxCoord
IouBoxes ==
  { [x |-> R(px), y |-> R(py), width |-> R(w), height |-> R(h)] :
      px \in 0..MaxCoord, py \in {0, 1}, w \in Extents, h \in Extents }

InitIou ==
  /\ box1 \in IouBoxes
  /\ box2 \in IouBoxes
  /\ iou = None
  /\ pc = "iou_call"
  /\ iou_threshold = None
  /\ boxes = <<>>
  /\ result = <<>>
  /\ current = NoBox
  /\ removed = <<>>
  /\ caller = None
  /\ IdleHandler
  /\ IdleNmsCall

CallIou ==
  /\ pc = "iou_call"
  /\ iou' = calculate_iou(box1, box2)
  /\ pc' = "iou_done"
  /\ UNCHANGED <<box1, box2, iou_threshold, caller>>
  /\ UNCHANGED <<handlerVars, nmsVars, nmsCallVars>>

NextIou == CallIou

SpecIou == InitIou /\ [][NextIou]_vars

\* both kinds of call
InitCalls == InitNms \/ InitIou
NextCalls == NextNms \/ NextIou
SpecCalls == InitCalls /\ [][NextCalls]_vars

\* ------------------------------------------- the pipeline behind /detect
InputSize == 640       \* input_size=640
PersonClass == 0       \* max_class == 0
DefaultConfidence == <<9, 20>>   \* request.args.get('confidence', 0.45)
DefaultIou == <<1, 2>>           \* request.args.get('iou', 0.5)

\* convert_coordinates(cx, cy, w, h, original_size, input_size)
convert_coordinates(cx, cy, w, h, size, input_size) ==
  LET scale_x == RDiv(R(size[1]), R(input_size))
      scale_y == RDiv(R(size[2]), R(input_size))
      x == RMul(RSub(cx, RDiv(w, R(2))), scale_x)
      y == RMul(RSub(cy, RDiv(h, R(2))), scale_y)
      width == RMul(w, scale_x)
      height == RMul(h, scale_y)
  IN <<x, y, width, height>>

\* np.max(class_scores) and np.argmax(class_scores), the first index of the
\* maximum, as a class id counted from 0
NpMax(scores) ==
  CHOOSE m \in Range(scores) : \A s \in Range(scores) : RLe(s, m)
NpArgmax(scores) ==
  (CHOOSE i \in 1..Len(scores) :
     /\ scores[i] = NpMax(scores)
     /\ \A j \in 1..(i - 1) : scores[j] # NpMax(scores)) - 1

\* the body of the loop of extract_detections for column i: the list with
\* the candidate the column gives, or the empty list
CandidateAnyClass(output, i, threshold) ==
  LET class_scores == output[i].scores
      max_score == NpMax(class_scores)
      max_class == NpArgmax(class_scores)
  IN IF RLe(threshold, max_score)
       THEN << [coords |-> <<output[i].cx, output[i].cy, output[i].w,
                             output[i].h>>,
                confidence |-> max_score, class_id |-> max_class] >>
       ELSE <<>>

Candidate(output, i, threshold) ==
  LET class_scores == output[i].scores
      max_score == NpMax(class_scores)
      max_class == NpArgmax(class_scores)
  IN IF max_class = PersonClass /\ RLe(threshold, max_score)
       THEN << [coords |-> <<output[i].cx, output[i].cy, output[i].w,
                             output[i].h>>,
                confidence |-> max_score, class_id |-> max_class] >>
       ELSE <<>>

RECURSIVE ExtractUpTo(_, _, _)
ExtractUpTo(output, n, threshold) ==
  IF n = 0 THEN <<>>
  ELSE ExtractUpTo(output, n - 1, threshold) \o Candidate(output, n, threshold)

\* extract_detections(output, confidence_threshold); np.max raises
\* ValueError on a column without class scores
ExtractRaises(output) == \E i \in 1..Len(output) : output[i].scores = <<>>
extract_detections(output, threshold) ==
  ExtractUpTo(output, Len(output), threshold)

\* the loop of postprocess_output, lines 100-113
ConvertAll(raw, size) ==
  [i \in 1..Len(raw) |->
     LET c == raw[i].coords
         b == convert_coordinates(c[1], c[2], c[3], c[4], size, InputSize)
     IN [x |-> b[1], y |-> b[2], width |-> b[3], height |-> b[4],
         confidence |-> raw[i].confidence, label |-> "person",
         class_id |-> raw[i].class_id, id |-> i]]

\* what jsonify writes of a detection: the keys of the dict
Json(d) ==
  [x |-> d.x, y |-> d.y, width |-> d.width, height |-> d.height,
   confidence |-> d.confidence, label |-> d.label, class_id |-> d.class_id]

\* ------------------------------------------------------------- the inputs
\* request.data: no bytes, bytes PIL cannot decode, or an image of a size
Empty == [kind |-> "empty"]
Garbage == [kind |-> "garbage"]
Images == { [kind |-> "image", size |-> <<640, 640>>],
            [kind |-> "image", size |-> <<1280, 320>>] }
Bodies == {Empty, Garbage} \cup Images

\* the value of a query argument: absent, or a string
Absent == "absent"
Args == {Absent, "abc", "0.2", "1.5"}

\* float(s): the number a string denotes, or ValueError
ValueError == "ValueError"
ParseFloat(s) ==
  CASE s = "0.2" -> <<1, 5>>
    [] s = "1.5" -> <<3, 2>>
    [] OTHER -> ValueError

\* float(request.args.get(name, default)); float of the default is itself
ArgValue(arg, default) == IF arg = Absent THEN default ELSE ParseFloat(arg)

\* the columns of an output tensor: cx, cy, w, h and the class scores
Column(g, s) == [cx |-> R(g[1]), cy |-> R(g[2]), w |-> R(g[3]), h |-> R(g[4]),
                 scores |-> s]
ColumnBoxes == { <<2, 2, 2, 2>>, <<3, 2, 2, 2>>, <<2, 2, -2, 2>> }
ColumnScores == { << <<9, 10>>, <<1, 10>> >>, << <<1, 2>>, <<1, 2>> >>,
                  << <<1, 10>>, <<9, 10>> >>, << <<3, 10>>, <<1, 10>> >> }
Columns == { Column(g, s) : g \in ColumnBoxes, s \in ColumnScores }
\* a tensor of another shape than [1, 4 + classes, n]: no class rows
NoClassRows == [i \in 1..NumCols |-> Column(<<2, 2, 2, 2>>, <<>>)]
Tensors == [1..NumCols -> Columns] \cup {NoClassRows}
InferenceError == "InferenceError"
ZeroSizeError == "ValueError: zero-size array to reduction operation"

StageOrder == <<"preprocess", "inference", "decode", "map", "nms">>

\* ------------------------------------------------------------ the handler
\* except Exception as e: return jsonify({'error': str(e)}), 500
ExceptValueErrorOnly(e) ==
  IF e = ValueError THEN [status |-> 500, error |-> e]
  ELSE [status |-> 500, html |-> "Internal Server Error"]

Except(e) == [status |-> 500, error |-> e]

\* not image_bytes (IsNone: the test `image_bytes is None`)
IsNone(data) == data.kind = "none"
Missing(data) == data = Empty

\* load_model(), run before the server serves
LoadModel ==
  /\ pc = "main"
  /\ \E exists \in BOOLEAN :
       session' = IF exists THEN "loaded" ELSE None
  /\ pc' = "serving"
  /\ UNCHANGED <<request, confidence_threshold, iou_threshold, original_size,
                 outputs, raw_detections, detections, response, called, caller>>
  /\ UNCHANGED <<nmsVars, nmsCallVars, iouVars>>

\* a POST /detect arrives and detect() is entered
Receive ==
  /\ pc \in {"serving", "responded"}
  /\ \E data \in Bodies, c \in Args, i \in Args :
       request' = [data |-> data, confidence |-> c, iou |-> i]
  /\ pc' = "detect"
  /\ response' = NoResponse
  /\ called' = <<>>
  /\ confidence_threshold' = None
  /\ iou_threshold' = None
  /\ original_size' = None
  /\ outputs' = <<>>
  /\ raw_detections' = <<>>
  /\ detections' = <<>>
  /\ boxes' = <<>>
  /\ result' = <<>>
  /\ current' = NoBox
  /\ removed' = <<>>
  /\ caller' = None
  /\ nms_in' = <<>>
  /\ UNCHANGED <<session, nms_out1, nms_out2, iouVars>>

\* if session is None, lines 173-174
CheckSession ==
  /\ pc = "detect"
  /\ IF session = None
       THEN /\ response' = [status |-> 500, error |-> "Model not loaded"]
            /\ pc' = "responded"
       ELSE /\ pc' = "body"
            /\ UNCHANGED response
  /\ UNCHANGED <<session, request, confidence_threshold, iou_threshold,
                 original_size, outputs, raw_detections, detections, called,
                 caller>>
  /\ UNCHANGED <<nmsVars, nmsCallVars, iouVars>>

\* image_bytes = request.data, lines 178-180
ReadBody ==
  /\ pc = "body"
  /\ IF Missing(request.data)
       THEN /\ response' = [status |-> 400, error |-> "No image data provided"]
            /\ pc' = "responded"
       ELSE /\ pc' = "params"
            /\ UNCHANGED response
  /\ UNCHANGED <<session, request, confidence_threshold, iou_threshold,
                 original_size, outputs, raw_detections, detections, called,
                 caller>>
  /\ UNCHANGED <<nmsVars, nmsCallVars, iouVars>>

\* the two float(...) of lines 183-184
ReadParams ==
  /\ pc = "params"
  /\ LET c == ArgValue(request.confidence, DefaultConfidence)
         i == ArgValue(request.iou, DefaultIou)
     IN IF c = ValueError
          THEN /\ response' = Except(ValueError)
               /\ pc' = "responded"
               /\ UNCHANGED <<confidence_threshold, iou_threshold>>
        ELSE IF i = ValueError
          THEN /\ response' = Except(ValueError)
               /\ pc' = "responded"
               /\ confidence_threshold' = c
               /\ UNCHANGED iou_threshold
        ELSE /\ confidence_threshold' = c
             /\ iou_threshold' = i
             /\ pc' = "preprocess"
             /\ UNCHANGED response
  /\ UNCHANGED <<session, request, original_size, outputs, raw_detections,
                 detections, called, caller>>
  /\ UNCHANGED <<nmsVars, nmsCallVars, iouVars>>

\* preprocess_image(image_bytes), line 187: Image.open raises on bytes that
\* are no image
PreprocessGoesOn ==
  /\ pc = "preprocess"
  /\ called' = Append(called, "preprocess")
  /\ original_size' =
       IF request.data.kind = "image" THEN request.data.size ELSE <<0, 0>>
  /\ pc' = "infer"
  /\ UNCHANGED <<session, request, confidence_threshold, iou_threshold,
                 outputs, raw_detections, detections, caller, response>>
  /\ UNCHANGED <<nmsVars, nmsCallVars, iouVars>>

Preprocess ==
  /\ pc = "preprocess"
  /\ called' = Append(called, "preprocess")
  /\ IF request.data.kind = "image"
       THEN /\ original_size' = request.data.size
            /\ pc' = "infer"
            /\ UNCHANGED response
       ELSE /\ response' = Except("UnidentifiedImageError")
            /\ pc' = "responded"
            /\ UNCHANGED original_size
  /\ UNCHANGED <<session, request, confidence_threshold, iou_threshold,
                 outputs, raw_detections, detections, caller>>
  /\ UNCHANGED <<nmsVars, nmsCallVars, iouVars>>

\* session.run(...), lines 190-192: the engine returns a tensor or raises
Infer ==
  /\ pc = "infer"
  /\ called' = Append(called, "inference")
  /\ \/ /\ response' = Except(InferenceError)
        /\ UNCHANGED outputs
        /\ pc' = "responded"
     \/ /\ outputs' \in Tensors
        /\ pc' = "decode"
        /\ UNCHANGED response
  /\ UNCHANGED <<session, request, confidence_threshold, iou_threshold,
                 original_size, raw_detections, detections, caller>>
  /\ UNCHANGED <<nmsVars, nmsCallVars, iouVars>>

\* raw_detections = extract_detections(output, confidence_threshold), line 97
Decode ==
  /\ pc = "decode"
  /\ called' = Append(called, "decode")
  /\ IF ExtractRaises(outputs)
       THEN /\ response' = Except(ZeroSizeError)
            /\ pc' = "responded"
            /\ UNCHANGED raw_detections
       ELSE /\ raw_detections' =
                 extract_detections(outputs, confidence_threshold)
            /\ pc' = "map"
            /\ UNCHANGED response
  /\ UNCHANGED <<session, request, confidence_threshold, iou_threshold,
                 original_size, outputs, detections, caller>>
  /\ UNCHANGED <<nmsVars, nmsCallVars, iouVars>>

\* the conversion loop, lines 100-113
Map ==
  /\ pc = "map"
  /\ called' = Append(called, "map")
  /\ detections' = ConvertAll(raw_detections, original_size)
  /\ pc' = "call_nms"
  /\ UNCHANGED <<session, request, confidence_threshold, iou_threshold,
                 original_size, outputs, raw_detections, caller, response>>
  /\ UNCHANGED <<nmsVars, nmsCallVars, iouVars>>

\* detections = apply_nms(detections, iou_threshold), line 116: the call
CallNms ==
  /\ pc = "call_nms"
  /\ called' = Append(called, "nms")
  /\ boxes' = detections
  /\ nms_in' = detections
  /\ caller' = "postprocess_output"
  /\ pc' = "nms_enter"
  /\ UNCHANGED <<session, request, confidence_threshold, iou_threshold,
                 original_size, outputs, raw_detections, detections,
                 response>>
  /\ UNCHANGED <<result, current, removed, nms_out1, nms_out2, iouVars>>

\* line 116: the return, and the jsonify of lines 202-206
Respond ==
  /\ pc = "nms_done"
  /\ caller = "postprocess_output"
  /\ detections' = result
  /\ response' = [status |-> 200,
                  detections |-> [i \in 1..Len(result) |-> Json(result[i])],
                  count |-> Len(result),
                  original_size |-> original_size]
  /\ pc' = "responded"
  /\ UNCHANGED <<session, request, confidence_threshold, iou_threshold,
                 original_size, outputs, raw_detections, called, caller>>
  /\ UNCHANGED <<nmsVars, nmsCallVars, iouVars>>

Init ==
  /\ pc = "main"
  /\ iou_threshold = None
  /\ boxes = <<>>
  /\ result = <<>>
  /\ current = NoBox
  /\ removed = <<>>
  /\ caller = None
  /\ IdleHandler
  /\ IdleNmsCall
  /\ IdleIou

Next ==
  \/ LoadModel
  \/ Receive
  \/ CheckSession
  \/ ReadBody
  \/ ReadParams
  \/ Preprocess
  \/ Infer
  \/ Decode
  \/ Map
  \/ CallNms
  \/ NmsEnter
  \/ NmsIter
  \/ NmsExit
  \/ Respond

Spec == Init /\ [][Next]_vars

\* ------------------------------------------------------------------ claims
Degenerate(b) == RLe(b.width, Zero) \/ RLe(b.height, Zero)
SameGeometry(a, b) ==
  a.x = b.x /\ a.y = b.y /\ a.width = b.width /\ a.height = b.height
NmsReturned == pc = "nms_done" \/ pc = "returned"

\* C1: the list apply_nms returns holds no two distinct boxes A, B with
\* calculate_iou(A, B) >= iou_threshold, whatever their class_id.
C1_NoOverlappingPair ==
  NmsReturned =>
    \A i \in 1..Len(result) : \A j \in 1..Len(result) :
      i # j => RLt(calculate_iou(result[i], result[j]), iou_threshold)

\* C1 witness: a returned list of two boxes of different classes, a box of
\* another class than the one that suppressed it having been dropped.
C1_Witness ==
  /\ pc = "nms_done"
  /\ caller = "first"
  /\ Len(result) = 2
  /\ result[1].class_id # result[2].class_id
  /\ Len(nms_in) = 3
  /\ \E i \in 1..Len(nms_in) :
       /\ nms_in[i] \notin Range(result)
       /\ nms_in[i].class_id # result[1].class_id
       /\ ~RLt(calculate_iou(result[1], nms_in[i]), iou_threshold)
       /\ RLt(calculate_iou(result[2], nms_in[i]), iou_threshold)

\* C2: the list apply_nms returns is made of input boxes, each unaltered and
\* at most once, in non-increasing confidence, boxes of equal confidence in
\* their input order.
C2_StableSortedSubsequence ==
  (pc = "nms_done" /\ caller = "first") =>
    /\ \A i \in 1..Len(result) :
         /\ result[i].id \in 1..Len(nms_in)
         /\ result[i] = nms_in[result[i].id]
    /\ \A i \in 1..Len(result) : \A j \in 1..Len(result) :
         i < j =>
           /\ result[i].id # result[j].id
           /\ RLe(result[j].confidence, result[i].confidence)
           /\ result[i].confidence = result[j].confidence
                => result[i].id < result[j].id

\* C2 witness: three boxes returned, two of them tied in confidence, from an
\* input that was not in descending order.
C2_Witness ==
  /\ pc = "nms_done"
  /\ caller = "first"
  /\ Len(result) = 3
  /\ result[2].confidence = result[3].confidence
  /\ RLt(nms_in[1].confidence, nms_in[3].confidence)

\* C8: apply_nms on its own output, with the same threshold, returns the
\* same set of boxes.
C8_Idempotent ==
  pc = "returned" => Range(nms_out2) = Range(nms_out1)

\* C8 witness: both calls returned, the first having dropped a box and kept
\* two.
C8_Witness ==
  /\ pc = "returned"
  /\ Len(nms_out1) = 2
  /\ Len(nms_in) = 3
  /\ nms_out2 = nms_out1

\* C9 as stated: calculate_iou(A, A) = 1.0 for any box A whose area, width *
\* height as calculate_iou computes it, is positive.
C9_AsStated ==
  (pc = "iou_done" /\ box2 = box1 /\ RLt(Zero, RMul(box1.width, box1.height)))
    => iou = One

\* C9 amended: calculate_iou(A, A) = 1.0 for any box A of positive width and
\* positive height.
C9_SelfIouIsOne ==
  (pc = "iou_done" /\ box2 = box1 /\ RLt(Zero, box1.width)
     /\ RLt(Zero, box1.height))
    => iou = One

\* C9 witness: the call returned 1.0 for a box of positive extent away from
\* the origin.
C9_Witness ==
  /\ pc = "iou_done"
  /\ box2 = box1
  /\ box1.width = R(2)
  /\ box1.height = R(1)
  /\ box1.x = R(1)
  /\ iou = One

\* the unit cells a box of integer corner and extent covers
Cells(b) ==
  { <<i, j>> : i \in b.x[1]..(b.x[1] + b.width[1] - 1),
               j \in b.y[1]..(b.y[1] + b.height[1] - 1) }

\* C10: calculate_iou(A, B) = 0 when A and B share no area or when either has
\* a width or height <= 0 (B = A included); and in apply_nms with a
\* threshold > 0 a box of such a width or height suppresses no box.
C10_ZeroIou ==
  /\ (pc = "iou_done"
        /\ (\/ Cells(box1) \cap Cells(box2) = {}
            \/ Degenerate(box1)
            \/ Degenerate(box2)))
       => iou = Zero
  /\ (pc = "nms_loop" /\ current # NoBox /\ RLt(Zero, iou_threshold)
        /\ Degenerate(current))
       => removed = <<>>

\* C10 witness, calculate_iou: a box of negative width and negative height
\* against itself.
C10_Witness ==
  /\ pc = "iou_done"
  /\ box2 = box1
  /\ RLt(box1.width, Zero)
  /\ RLt(box1.height, Zero)
  /\ iou = Zero

\* C10, apply_nms: a box of negative width and height was popped and the box
\* of the same geometry behind it was kept.
C10_NmsReached ==
  /\ pc = "nms_loop"
  /\ caller = "first"
  /\ RLt(Zero, iou_threshold)
  /\ current # NoBox
  /\ Degenerate(current)
  /\ boxes # <<>>
  /\ SameGeometry(boxes[1], current)

\* --------------------------------------------------------- claims, /detect
Answered == pc = "responded"
IsPrefix(s, t) == Len(s) <= Len(t) /\ s = SubSeq(t, 1, Len(s))

\* C3: every detection of a 200 response has class_id 0 and a confidence >=
\* the request's confidence threshold, and is the candidate of a column whose
\* first class score is its maximum; no more detections than such columns.
C3_PersonAboveThreshold ==
  (Answered /\ response.status = 200) =>
    LET Passing == { i \in 1..Len(outputs) :
                       /\ \A s \in Range(outputs[i].scores) :
                            RLe(s, outputs[i].scores[1])
                       /\ RLe(confidence_threshold, outputs[i].scores[1]) }
    IN /\ \A k \in 1..Len(response.detections) :
            /\ response.detections[k].class_id = 0
            /\ RLe(confidence_threshold, response.detections[k].confidence)
            /\ \E i \in Passing :
                 response.detections[k].confidence = outputs[i].scores[1]
       /\ Len(response.detections) <= Cardinality(Passing)
       /\ confidence_threshold =
            (IF request.confidence = "0.2" THEN <<1, 5>>
             ELSE IF request.confidence = "1.5" THEN <<3, 2>>
             ELSE <<9, 20>>)

\* C3 witness: a 200 response with one detection of confidence 0.3, let in
\* by confidence=0.2, the other column being of class 1.
C3_Witness ==
  /\ Answered
  /\ response.status = 200
  /\ response.count = 1
  /\ response.detections[1].confidence = <<3, 10>>
  /\ request.confidence = "0.2"
  /\ \E i \in 1..Len(outputs) : outputs[i].scores[1] = <<1, 10>>

\* C4: the stages of a request run in the order preprocess, inference,
\* decode, map, nms, each after the one before it has returned; a stage
\* that fails ends the request with an error response and no later stage
\* runs.
C4_StagesInOrder ==
  pc \notin {"main", "serving"} =>
    /\ IsPrefix(called, StageOrder)
    /\ pc \in {"detect", "body", "params", "preprocess"} => called = <<>>
    /\ pc = "infer" => called = SubSeq(StageOrder, 1, 1)
    /\ pc = "decode" => called = SubSeq(StageOrder, 1, 2)
    /\ pc = "map" => called = SubSeq(StageOrder, 1, 3)
    /\ pc = "call_nms" => called = SubSeq(StageOrder, 1, 4)
    /\ pc \in {"nms_enter", "nms_loop", "nms_done"} => called = StageOrder
    /\ (Answered /\ response.status = 200) => called = StageOrder
    /\ (Answered /\ called # StageOrder) =>
         /\ response.status # 200
         /\ "error" \in DOMAIN response
    /\ request.data.kind # "image" => IsPrefix(called, <<"preprocess">>)
    /\ (Len(called) >= 3 /\ ExtractRaises(outputs)) =>
         /\ Answered
         /\ called = SubSeq(StageOrder, 1, 3)
    /\ (Answered /\ response.status # 200) =>
         /\ response.error = "UnidentifiedImageError"
              => called = SubSeq(StageOrder, 1, 1)
         /\ response.error = InferenceError
              => called = SubSeq(StageOrder, 1, 2)
         /\ response.error = ZeroSizeError
              => called = SubSeq(StageOrder, 1, 3)

\* C4 witness: a request that ran all five stages and was answered with two
\* detections.
C4_Witness ==
  /\ Answered
  /\ response.status = 200
  /\ called = StageOrder
  /\ response.count = 2

\* C4, the failing case: the engine raised, and the request was answered
\* with its error after two stages.
C4_FailureReached ==
  /\ Answered
  /\ response.status = 500
  /\ response.error = InferenceError
  /\ called = <<"preprocess", "inference">>

\* C5 as stated: a request with an empty body is answered 400 "No image
\* data provided" in any server state, no stage having run.
C5_AsStated ==
  (Answered /\ request.data = Empty) =>
    /\ response = [status |-> 400, error |-> "No image data provided"]
    /\ called = <<>>

\* C5 amended: when the model is loaded, a request with an empty body is
\* answered 400 "No image data provided" whatever its query arguments, no
\* stage having run.
C5_EmptyBody400 ==
  (Answered /\ request.data = Empty /\ session # None) =>
    /\ response = [status |-> 400, error |-> "No image data provided"]
    /\ called = <<>>

\* C5 witness: the model loaded, an empty body with arguments float()
\* rejects, answered 400.
C5_Witness ==
  /\ Answered
  /\ session # None
  /\ request.data = Empty
  /\ request.confidence = "abc"
  /\ request.iou = "1.5"
  /\ response.status = 400

\* C6: with the model loaded and a body that is not empty, a body that is no
\* image, or a confidence or iou argument that is no number or lies outside
\* [0, 1], is answered with a 400-class status and an error field.
C6_ClientErrors400 ==
  (/\ Answered
   /\ session # None
   /\ request.data # Empty
   /\ \/ request.data = Garbage
      \/ request.confidence \in {"abc", "1.5"}
      \/ request.iou \in {"abc", "1.5"})
    => /\ response.status \in 400..499
       /\ "error" \in DOMAIN response

\* C7: a request ends with one structured response: 200 with detections,
\* count = the number of detections and original_size, or another status
\* with an error field; while the handler runs there is no response.
C7_StructuredResponse ==
  /\ Answered =>
       \/ /\ response.status = 200
          /\ DOMAIN response =
               {"status", "detections", "count", "original_size"}
          /\ response.count = Len(response.detections)
          /\ response.original_size = request.data.size
       \/ /\ response.status \in {400, 500}
          /\ DOMAIN response = {"status", "error"}
  /\ pc \notin {"main", "serving", "responded"} => response = NoResponse

\* C7 witness: post-processing raised on the engine's output and the
\* request was answered 500 with the error.
C7_Witness ==
  /\ Answered
  /\ response = [status |-> 500, error |-> ZeroSizeError]
  /\ called = <<"preprocess", "inference", "decode">>

\* ------------------------------------------------- claims, box extents
NonNegative(w, h) == RLe(Zero, w) /\ RLe(Zero, h)
AllNonNegative(s) ==
  \A i \in 1..Len(s) : NonNegative(s[i].width, s[i].height)

\* C11: at every stage of postprocess_output (decoded candidate, converted
\* box, box given to apply_nms and calculate_iou, box of the final result)
\* width >= 0 and height >= 0.
C11_NonNegativeExtents ==
  pc \notin {"main", "serving"} =>
    /\ \A i \in 1..Len(raw_detections) :
         NonNegative(raw_detections[i].coords[3], raw_detections[i].coords[4])
    /\ AllNonNegative(detections)
    /\ AllNonNegative(boxes)
    /\ AllNonNegative(result)
    /\ current # NoBox => NonNegative(current.width, current.height)
    /\ (Answered /\ response.status = 200)
         => AllNonNegative(response.detections)

\* C11, where the code ends: no 200 response holds a detection of negative
\* width.  It is violated: the negative width of a column reaches the
\* response, scaled by convert_coordinates and not clamped.
C11_NoNegativeWidthAnswered ==
  (Answered /\ response.status = 200) => AllNonNegative(response.detections)

\* ------------------------------------------------ claims, why a box is lost
\* a comes before b in the stable order of descending confidence
Precedes(a, b) ==
  \/ RLt(b.confidence, a.confidence)
  \/ a.confidence = b.confidence /\ a.id < b.id

\* C12: of a list that is not empty apply_nms keeps the box first in the
\* stable descending-confidence order, and every input box it leaves out
\* has calculate_iou >= iou_threshold with a kept box that comes before it
\* in that order; only an empty input gives an empty output.
C12_DroppedForAReason ==
  (pc = "nms_done" /\ caller = "first") =>
    /\ nms_in # <<>> =>
         /\ result # <<>>
         /\ result[1] \in Range(nms_in)
         /\ \A b \in Range(nms_in) : b = result[1] \/ Precedes(result[1], b)
    /\ \A b \in Range(nms_in) :
         b \notin Range(result) =>
           \E r \in Range(result) :
             /\ Precedes(r, b)
             /\ RLe(b.confidence, r.confidence)
             /\ ~RLt(calculate_iou(r, b), iou_threshold)
    /\ result = <<>> => nms_in = <<>>

\* C12 witness: of three boxes the second in the order was dropped by the
\* first, and the third was kept although it overlaps the dropped one.
C12_Witness ==
  /\ pc = "nms_done"
  /\ caller = "first"
  /\ Len(nms_in) = 3
  /\ Len(result) = 2
  /\ \E b \in Range(nms_in) :
       /\ b \notin Range(result)
       /\ Precedes(result[1], b)
       /\ Precedes(b, result[2])
       /\ ~RLt(calculate_iou(result[1], b), iou_threshold)
       /\ ~RLt(calculate_iou(b, result[2]), iou_threshold)
====
